---- MODULE Spec2Model ----
(***************************************************************************)
(* Model of hooks/pre-push.py: the git pre-push hook that scans the pushed *)
(* commits for AB#<digits> references, resolves the current iteration from *)
(* the work-tracking service and PATCHes every referenced work item.       *)
(*                                                                         *)
(* Text is modelled as sequences of one-character strings, so that split,  *)
(* upper, startswith, strip, substring tests and the regular expression    *)
(* are computed as the code computes them.                                 *)
(*                                                                         *)
(* Specifications:                                                         *)
(*   Spec      the program: the __main__ guard and main()                  *)
(*   SpecPC    process_commits as declared (four parameters), with the     *)
(*             calls it makes: git, get_current_iteration, add_tag         *)
(*   SpecIter  find_current_iteration_recursive over bounded forests       *)
(*   SpecParse parse_commit_message over bounded commit texts              *)
(*   SpecIdem  add_tag run twice against the work-tracking service         *)
(***************************************************************************)
EXTENDS Integers, Sequences, FiniteSets, TLC

\* ------------------------------------------------------------------ bounds
\* commit texts are concatenations of at most MaxChunks chunks of TextChunks
MaxChunks == 4
\* iteration forests have at most MaxNodes nodes
MaxNodes == 3
\* stdin holds at most MaxLines lines
MaxLines == 3

\* ------------------------------------------------------- Python's None
None == "<None>"

\* ------------------------------------------------------- string helpers
Lowers == <<"a","b","c","d","e","f","g","h","i","j","k","l","m",
            "n","o","p","q","r","s","t","u","v","w","x","y","z">>
Uppers == <<"A","B","C","D","E","F","G","H","I","J","K","L","M",
            "N","O","P","Q","R","S","T","U","V","W","X","Y","Z">>
Digits == {"0","1","2","3","4","5","6","7","8","9"}
Whitespace == {" ", "\n", "\t"}

\* str.upper() on one character
UpperChar(c) ==
  IF \E i \in 1..Len(Lowers) : Lowers[i] = c
  THEN Uppers[CHOOSE i \in 1..Len(Lowers) : Lowers[i] = c]
  ELSE c

\* str.upper()
upper(s) == [i \in 1..Len(s) |-> UpperChar(s[i])]

\* str.startswith(p)
startswith(s, p) == Len(s) >= Len(p) /\ SubSeq(s, 1, Len(p)) = p

\* the Python test  sub in s  on strings
Contains(s, sub) ==
  \E i \in 1..(Len(s) - Len(sub) + 1) : SubSeq(s, i, i + Len(sub) - 1) = sub

\* s.split('/')[-1] : what follows the last '/', the whole of s when none
LastSegment(s) ==
  LET slashes == {i \in 1..Len(s) : s[i] = "/"}
      last == IF slashes = {} THEN 0
              ELSE CHOOSE i \in slashes : \A j \in slashes : j <= i
  IN SubSeq(s, last + 1, Len(s))

\* str.strip()
strip(s) ==
  LET keep == {i \in 1..Len(s) : s[i] \notin Whitespace}
  IN IF keep = {} THEN <<>>
     ELSE SubSeq(s, CHOOSE i \in keep : \A j \in keep : i <= j,
                    CHOOSE i \in keep : \A j \in keep : j <= i)

Range(s) == {s[i] : i \in 1..Len(s)}

\* every order in which list(a_set) may enumerate the set
Orderings(S) ==
  {q \in [1..Cardinality(S) -> S] : \A i, j \in 1..Cardinality(S) : q[i] = q[j] => i = j}

NoDuplicates(q) == \A i, j \in 1..Len(q) : q[i] = q[j] => i = j

\* -------------------------------------------------- parse_commit_message
\* the pattern's literal part, AB#
Marker == <<"A", "B", "#">>

\* re.IGNORECASE: the literal matches at position i in any letter case
MarkerAt(text, i) ==
  /\ i + Len(Marker) - 1 <= Len(text)
  /\ upper(SubSeq(text, i, i + Len(Marker) - 1)) = Marker

\* \d+ is greedy: the last index of the digit run that starts at i
RECURSIVE DigitRunEnd(_, _)
DigitRunEnd(text, i) ==
  IF i + 1 <= Len(text) /\ text[i + 1] \in Digits
  THEN DigitRunEnd(text, i + 1)
  ELSE i

\* re.findall(r'AB#(\d+)', text, re.IGNORECASE) scanning from position i:
\* the captured groups of the non-overlapping matches, left to right
RECURSIVE re_findall(_, _)
re_findall(text, i) ==
  IF i > Len(text) THEN <<>>
  ELSE IF /\ MarkerAt(text, i)
          /\ i + Len(Marker) <= Len(text)
          /\ text[i + Len(Marker)] \in Digits
       THEN LET e == DigitRunEnd(text, i + Len(Marker))
            IN <<SubSeq(text, i + Len(Marker), e)>> \o re_findall(text, e + 1)
       ELSE re_findall(text, i + 1)

\* set(re.findall(...))
ticket_numbers(commit_messages_) == Range(re_findall(commit_messages_, 1))

\* parse_commit_message without the set(): list(re.findall(...))
parse_commit_message_no_set(commit_messages_) == {re_findall(commit_messages_, 1)}

\* the lists parse_commit_message may return: list(ticket_numbers)
parse_commit_message(commit_messages_) == Orderings(ticket_numbers(commit_messages_))

\* ------------------------------------- find_current_iteration_recursive
\* A calendar date is its day number counted from 2023-01-01 (day 0).
\* date.year, for the three years the model covers
YearOf(d) == IF d < 365 THEN 2023 ELSE IF d < 731 THEN 2024 ELSE 2025

\* str(n) for n >= 0, as a sequence of characters
DigitChar == <<"0","1","2","3","4","5","6","7","8","9">>
RECURSIVE str(_)
str(n) == IF n < 10 THEN <<DigitChar[n + 1]>>
          ELSE str(n \div 10) \o <<DigitChar[(n % 10) + 1]>>

\* A date string of the response: kind "none" (key absent or null), "empty",
\* "bad" (fromisoformat raises ValueError) or "iso": local day `day`, hour
\* `hour`, UTC offset `off` hours ('Z' is offset 0).
NoDate == [kind |-> "none", day |-> 0, hour |-> 0, off |-> 0]
BadDate == [kind |-> "bad", day |-> 0, hour |-> 0, off |-> 0]
Iso(d, h, o) == [kind |-> "iso", day |-> d, hour |-> h, off |-> o]

\* the truth value Python gives the string
Truthy(ds) == ds.kind \in {"bad", "iso"}

\* datetime.fromisoformat(s.replace('Z', '+00:00')) raises ValueError
RaisesValueError(ds) == ds.kind = "bad"

\* datetime.fromisoformat(...).astimezone(timezone.utc).date()
UtcDate(ds) ==
  LET h == ds.hour - ds.off
  IN IF h < 0 THEN ds.day - 1 ELSE IF h >= 24 THEN ds.day + 1 ELSE ds.day

\* no 'attributes' key in the node
NoAttributes == [has |-> FALSE, startDate |-> NoDate, finishDate |-> NoDate]
Attributes(s, f) == [has |-> TRUE, startDate |-> s, finishDate |-> f]

\* the value that stands for a ValueError leaving the function
ValueErrorRaised == "<ValueError>"

\* node_test with the except clause of line 188 missing
node_test_no_except(node, current_date, current_year) ==
  IF ~(Contains(node.path, current_year) /\ node.attributes.has) THEN "next"
  ELSE IF ~(Truthy(node.attributes.startDate) /\ Truthy(node.attributes.finishDate))
  THEN "next"
  ELSE IF RaisesValueError(node.attributes.startDate)
          \/ RaisesValueError(node.attributes.finishDate)
  THEN ValueErrorRaised
  ELSE IF /\ UtcDate(node.attributes.startDate) <= current_date
          /\ current_date <= UtcDate(node.attributes.finishDate)
  THEN "return" ELSE "next"

\* node_test with the year test of line 176 missing
node_test_any_year(node, current_date, current_year) ==
  IF ~node.attributes.has THEN "next"
  ELSE IF ~(Truthy(node.attributes.startDate) /\ Truthy(node.attributes.finishDate))
  THEN "next"
  ELSE IF RaisesValueError(node.attributes.startDate)
          \/ RaisesValueError(node.attributes.finishDate)
  THEN "next"
  ELSE IF /\ UtcDate(node.attributes.startDate) <= current_date
          /\ current_date <= UtcDate(node.attributes.finishDate)
  THEN "return" ELSE "next"

\* lines 176-189: the test of one node: "return" when line 187 returns its
\* name, "next" when control goes on to line 191; a ValueError of line 184
\* or 185 is caught at line 188, which prints a warning and goes on
node_test(node, current_date, current_year) ==
  IF ~(Contains(node.path, current_year) /\ node.attributes.has) THEN "next"
  ELSE IF ~(Truthy(node.attributes.startDate) /\ Truthy(node.attributes.finishDate))
  THEN "next"
  ELSE IF RaisesValueError(node.attributes.startDate)
          \/ RaisesValueError(node.attributes.finishDate)
  THEN "next"
  ELSE IF /\ UtcDate(node.attributes.startDate) <= current_date
          /\ current_date <= UtcDate(node.attributes.finishDate)
  THEN "return" ELSE "next"

\* lines 176-187: TRUE when line 187 returns the node's name
NodeMatches(node, current_date, current_year) ==
  node_test(node, current_date, current_year) = "return"

\* find_from searching a node's children before testing the node itself
RECURSIVE find_from_children_first(_, _, _, _)
find_from_children_first(nodes, i, current_date, current_year) ==
  IF i > Len(nodes) THEN None
  ELSE LET node == nodes[i]
           found_name ==
             IF node.children # <<>>
             THEN find_from_children_first(node.children, 1, current_date, current_year)
             ELSE None
       IN IF found_name # None THEN found_name
          ELSE IF NodeMatches(node, current_date, current_year) THEN node.name
          ELSE find_from_children_first(nodes, i + 1, current_date, current_year)

\* lines 172-195, on the nodes from index i on; an exception of the node
\* test or of the recursive call has no handler here and leaves the function
RECURSIVE find_from(_, _, _, _)
find_from(nodes, i, current_date, current_year) ==
  IF i > Len(nodes) THEN None
  ELSE LET node == nodes[i]
           tested == node_test(node, current_date, current_year)
       IN IF tested = ValueErrorRaised
          THEN ValueErrorRaised
          ELSE IF tested = "return"
          THEN node.name
          ELSE LET found_name ==
                     IF node.children # <<>>
                     THEN find_from(node.children, 1, current_date, current_year)
                     ELSE None
               IN IF found_name # None
                  THEN found_name
                  ELSE find_from(nodes, i + 1, current_date, current_year)

find_current_iteration_recursive(nodes, current_date, current_year) ==
  find_from(nodes, 1, current_date, current_year)

\* ------------------------------------------------------------------ state
VARIABLES
  pc,                \* position of the control
  exit_code,         \* the process's exit status once pc = "exited", else -1
  exc,               \* the exception propagating or that ended the run, else None
  outcome,           \* terminal state of the pipeline of one push line
  TOKEN,             \* module global TOKEN
  default_branch,    \* main's default_branch
  is_setup_complete, \* main's is_setup_complete
  stdin_lines,       \* main's stdin_lines, each line its sequence of tokens
  line_idx,          \* index of the line the for loop of main is at
  entered,           \* indexes of the lines whose process_commits body was entered
  local_ref,         \* process_commits' parameters
  local_sha,
  remote_sha,
  branch_name,       \* process_commits' locals
  commit_range,
  commit_messages,
  ticket_nums,
  iteration_value,
  resp,              \* the response to the iteration GET
  today,             \* datetime.now(timezone.utc).date() in get_current_iteration
  patch_outcomes,    \* the service's answer to each PATCH sent by add_tag
  reports,           \* what add_tag printed for each ticket
  trace,             \* the external calls made so far: git commands, GET, PATCH
  stages,            \* the pipeline stages entered so far
  requests_version,  \* which requests library is installed
  remote,            \* the service's record of each work item: tags, iteration field
  run,               \* which run of add_tag this is, when it is run twice
  first_run          \* the answers to, and the records after, the first of two runs

vars == <<pc, exit_code, exc, outcome, TOKEN, default_branch, is_setup_complete,
          stdin_lines, line_idx, entered, local_ref, local_sha, remote_sha,
          branch_name, commit_range, commit_messages, ticket_nums,
          iteration_value, resp, today, patch_outcomes, reports, trace, stages,
          requests_version, remote, run, first_run>>

remoteVars == <<remote, run, first_run>>
mainVars == <<TOKEN, default_branch, is_setup_complete, stdin_lines, line_idx, entered>>
paramVars == <<local_ref, local_sha, remote_sha>>

NoResponse == [kind |-> "none", children |-> <<>>]
NoRange == [from |-> None, to |-> None]

\* main has not run
MainIdle ==
  /\ TOKEN = None
  /\ default_branch = None
  /\ is_setup_complete = FALSE
  /\ stdin_lines = <<>>
  /\ line_idx = 0
  /\ entered = <<>>

\* process_commits has not been called
NoCall ==
  /\ local_ref = <<>>
  /\ local_sha = None
  /\ remote_sha = None

\* the locals of process_commits and of its callees before they are set
FreshLocals ==
  /\ branch_name = <<>>
  /\ commit_range = NoRange
  /\ commit_messages = <<>>
  /\ ticket_nums = <<>>
  /\ iteration_value = None
  /\ resp = NoResponse
  /\ today = 0
  /\ patch_outcomes = <<>>
  /\ reports = <<>>
  /\ stages = <<>>

\* ------------------------------------------- the work-tracking service
\* line 60: the tag to add to the work item
TAG_VALUE == "App:TODO"

\* lines 244-247: the JSON patch document sent for every ticket
patch_body(tag_value, iteration_value_) ==
  << [op |-> "add", path |-> "/fields/System.Tags", value |-> tag_value],
     [op |-> "add", path |-> "/fields/Custom.FixedinIteration", value |-> iteration_value_] >>

\* the work items the service knows
RemoteTickets == {<<"1">>, <<"2">>, <<"3">>}

\* the service applying one operation of a patch document to a work item:
\* adding a tag is set-like, setting the iteration field overwrites it
ApplyOp(item, operation) ==
  IF operation.path = "/fields/System.Tags"
  THEN [item EXCEPT !.tags = IF operation.value \in Range(@) THEN @
                             ELSE Append(@, operation.value)]
  ELSE [item EXCEPT !.iteration = operation.value]

\* the service applying a patch document, operation after operation
RECURSIVE ApplyBody(_, _)
ApplyBody(item, body) ==
  IF body = <<>> THEN item ELSE ApplyBody(ApplyOp(item, Head(body)), Tail(body))

\* the records of the service after it answered o to the PATCH of a ticket:
\* only a request answered 200 changes the work item
Served(remote_, ticket_num, o, body) ==
  IF o = "ok" /\ ticket_num \in DOMAIN remote_
  THEN [remote_ EXCEPT ![ticket_num] = ApplyBody(@, body)]
  ELSE remote_

\* a work item nobody has touched
FreshItem == [tags |-> <<>>, iteration |-> None]

\* no run of add_tag has met the service yet
RemoteUntouched ==
  /\ remote = [t \in RemoteTickets |-> FreshItem]
  /\ run = 1
  /\ first_run = [outcomes |-> <<>>, remote |-> [t \in RemoteTickets |-> FreshItem]]

\* add_tag leaving out the tickets that already carry the tag
tickets_to_update_untagged(ticket_nums_, remote_) ==
  SelectSeq(ticket_nums_, LAMBDA t : TAG_VALUE \notin Range(remote_[t].tags))

\* line 242: the tickets the loop of add_tag visits, whatever the service holds
tickets_to_update(ticket_nums_, remote_) == ticket_nums_

\* ------------------------------------------------ SpecParse: the extractor
\* the pieces commit texts are built from
TextChunks == {<<"A","B","#">>, <<"a","b","#">>, <<"A","b">>, <<"#">>,
               <<"1">>, <<"2">>, <<"x">>, <<" ">>}

RECURSIVE TextsOf(_)
TextsOf(n) ==
  IF n = 0 THEN {<<>>}
  ELSE TextsOf(n - 1) \cup {t \o c : t \in TextsOf(n - 1), c \in TextChunks}

InitParse ==
  /\ pc = "parse"
  /\ exit_code = -1 /\ exc = None /\ outcome = None /\ trace = <<>>
  /\ MainIdle /\ NoCall /\ requests_version = "json_error_is_request_exception"
  /\ RemoteUntouched
  /\ branch_name = <<>> /\ commit_range = NoRange
  /\ commit_messages \in TextsOf(MaxChunks)
  /\ ticket_nums = <<>>
  /\ iteration_value = None /\ resp = NoResponse /\ today = 0
  /\ patch_outcomes = <<>> /\ reports = <<>> /\ stages = <<>>

\* lines 260-272: one call of parse_commit_message
ParseCommitMessage ==
  /\ pc = "parse"
  /\ ticket_nums' \in parse_commit_message(commit_messages)
  /\ pc' = "parsed"
  /\ UNCHANGED <<exit_code, exc, outcome, mainVars, paramVars, remoteVars, requests_version, branch_name,
                 commit_range, commit_messages, iteration_value, resp, today,
                 patch_outcomes, reports, trace, stages>>

NextParse == ParseCommitMessage

SpecParse == InitParse /\ [][NextParse]_vars

\* ------------------------------------------------- SpecIter: the resolver
Path2023 == <<"I","\\","2","0","2","3","\\","S">>
Path2024 == <<"I","\\","2","0","2","4","\\","S">>
PathSamples == {Path2023, Path2024}

\* 2023-12-31, 2024-01-01, 2024-01-02
DaySamples == {364, 365, 366}

AttributeSamples ==
  { NoAttributes,
    Attributes(Iso(365, 0, 0), Iso(365, 0, 0)),
    Attributes(Iso(364, 0, 0), Iso(365, 23, -5)),
    Attributes(BadDate, Iso(366, 0, 0)),
    Attributes(Iso(364, 0, 0), BadDate),
    Attributes(Iso(364, 0, 0), NoDate) }

\* the dates that parse
DatedSamples == {a \in AttributeSamples :
                   a.startDate.kind = "iso" /\ a.finishDate.kind = "iso"}

\* what a node of the response may hold: under 2024 every sample of
\* attributes, under 2023 those with dates that parse
NodeSamples ==
  {[path |-> Path2024, attributes |-> a] : a \in AttributeSamples}
    \cup {[path |-> p, attributes |-> a] : p \in PathSamples, a \in DatedSamples}

NodeNames == <<"Sprint1", "Sprint2", "Sprint3", "Sprint4", "Sprint5", "Sprint6">>

\* the forests of exactly n nodes, named in pre-order from NodeNames[base] on
RECURSIVE ForestsOf(_, _)
ForestsOf(n, base) ==
  IF n = 0 THEN {<<>>}
  ELSE UNION { { <<[name |-> NodeNames[base], path |-> s.path,
                   attributes |-> s.attributes, children |-> kids]>> \o rest :
                 s \in NodeSamples,
                 kids \in ForestsOf(k, base + 1),
                 rest \in ForestsOf(n - 1 - k, base + 1 + k) } : k \in 0..(n - 1) }

InitIter ==
  /\ pc = "find"
  /\ exit_code = -1 /\ exc = None /\ outcome = None /\ trace = <<>>
  /\ MainIdle /\ NoCall /\ requests_version = "json_error_is_request_exception"
  /\ RemoteUntouched
  /\ branch_name = <<>> /\ commit_range = NoRange
  /\ commit_messages = <<>> /\ ticket_nums = <<>>
  /\ iteration_value = None
  /\ \E n \in 0..MaxNodes :
       IF n = 0
       THEN resp = [kind |-> "tree", children |-> <<>>]
       ELSE \E k \in 0..(n - 1), s \in NodeSamples :
              \E kids \in ForestsOf(k, 2), rest \in ForestsOf(n - 1 - k, 2 + k) :
                resp = [kind |-> "tree",
                        children |-> <<[name |-> NodeNames[1], path |-> s.path,
                                        attributes |-> s.attributes,
                                        children |-> kids]>> \o rest]
  /\ today \in DaySamples
  /\ patch_outcomes = <<>> /\ reports = <<>> /\ stages = <<>>

\* lines 168-195: one call of find_current_iteration_recursive, with the
\* arguments get_current_iteration passes (lines 211-215)
FindCurrentIteration ==
  /\ pc = "find"
  /\ LET found == find_current_iteration_recursive(resp.children, today,
                                                    str(YearOf(today)))
     IN IF found = ValueErrorRaised
        THEN pc' = "raised" /\ exc' = "ValueError"
             /\ iteration_value' = iteration_value
        ELSE pc' = "found" /\ exc' = exc /\ iteration_value' = found
  /\ UNCHANGED <<exit_code, outcome, mainVars, paramVars, remoteVars, requests_version, branch_name,
                 commit_range, commit_messages, ticket_nums, resp, today,
                 patch_outcomes, reports, trace, stages>>

NextIter == FindCurrentIteration

SpecIter == InitIter /\ [][NextIter]_vars

\* ------------------------------------------- SpecPC: process_commits
\* line 289: the remote commit id that signals a new branch
ZeroSha == "0000000000000000000000000000000000000000"

\* line 284: the review-branch marker, compared after upper()
ReviewMarker == <<"C", "R", "/">>

\* line 284: branch_name.upper().startswith('CR/')
IsReviewBranch(branch_name_) == startswith(upper(branch_name_), ReviewMarker)

\* line 289 with the comparison never true
IsNewBranchNever(remote_sha_) == FALSE

\* line 289: remote_sha == "0000000000000000000000000000000000000000"
IsNewBranch(remote_sha_) == remote_sha_ = ZeroSha

RefsHeads == <<"r","e","f","s","/","h","e","a","d","s","/">>

\* the local refs pushed: refs/heads/x, refs/heads/CR/x, refs/heads/cr/x,
\* refs/heads/Cr/x
RefSamples == { RefsHeads \o <<"x">>,
                RefsHeads \o <<"C","R","/","x">>,
                RefsHeads \o <<"c","r","/","x">>,
                RefsHeads \o <<"C","r","/","x">> }

\* what `git log --pretty=%B <range>` may print
LogSamples == { <<>>,
                <<"\n">>,
                <<"f","i","x","\n">>,
                <<"A","B","#","1","\n">>,
                <<"a","b","#","1"," ","A","B","#","1","\n">>,
                <<"A","B","#","1","\n","\n","a","b","#","1","\n">>,
                <<"A","B","#","1","\n","\n","a","b","#","2","\n">>,
                <<"A","B","#","1"," ","A","B","#","2"," ","A","B","#","3","\n">> }

\* how a git command run through check_output may end
GitResults == {"ok", "CalledProcessError", "FileNotFoundError"}

\* the iteration tree of the running example: a year node without dates
\* over two one-day sprints, 2024-01-01 and 2024-01-02
ExampleTree ==
  << [name |-> "Y2024", path |-> <<"I","\\","2","0","2","4">>,
      attributes |-> NoAttributes,
      children |->
        << [name |-> "S1", path |-> <<"I","\\","2","0","2","4","\\","S","1">>,
            attributes |-> Attributes(Iso(365, 0, 0), Iso(365, 0, 0)),
            children |-> <<>>],
           [name |-> "S2", path |-> <<"I","\\","2","0","2","4","\\","S","2">>,
            attributes |-> Attributes(Iso(366, 0, 0), Iso(366, 0, 0)),
            children |-> <<>>] >>] >>

\* a tree whose root has no 'path' key and whose only sprint, filed under
\* 2023, runs from 2023-12-31 to 2024-01-02
BoundaryTree ==
  << [name |-> "Old", path |-> <<>>,
      attributes |-> Attributes(Iso(364, 0, 0), Iso(366, 0, 0)),
      children |->
        << [name |-> "S26", path |-> <<"I","\\","2","0","2","3","\\","S","2","6">>,
            attributes |-> Attributes(Iso(364, 0, 0), Iso(366, 0, 0)),
            children |-> <<>>] >>] >>

\* how the GET of the iteration tree may end (lines 207-209):
\*   connection_error, timeout  requests.get raises a RequestException
\*   http_error                 raise_for_status raises HTTPError
\*   bad_json                   response.json() raises a JSONDecodeError
\*   json_null                  the body is the JSON value null
\*   no_children                a JSON object without the key 'children'
\*   tree                       a JSON object with 'children'
GetFailureKinds == {"connection_error", "timeout", "http_error", "bad_json",
                    "json_null", "no_children"}
GetResponses ==
  {[kind |-> k, children |-> <<>>] : k \in GetFailureKinds}
    \cup {[kind |-> "tree", children |-> f] : f \in {<<>>, ExampleTree, BoundaryTree}}

\* lines 206-231: what get_current_iteration does with the response r when
\* the clock reads date d: the value it returns, or the exception it lets out
get_current_iteration(r, d) ==
  CASE r.kind \in {"connection_error", "timeout", "http_error"} ->
         [raised |-> None, value |-> None]       \* except RequestException
    [] r.kind = "bad_json" ->
         [raised |-> None, value |-> None]       \* either except clause
    [] r.kind = "json_null" ->
         [raised |-> "TypeError", value |-> None] \* 'children' in None
    [] r.kind = "no_children" ->
         [raised |-> None, value |-> None]
    [] OTHER ->
         LET iteration == find_current_iteration_recursive(r.children, d, str(YearOf(d)))
         IN IF iteration = ValueErrorRaised
            THEN [raised |-> "ValueError", value |-> None]  \* neither except clause
            ELSE [raised |-> None, value |-> iteration]

\* line 309 with an iteration taken for present whatever was returned
IterationMissingNever(iteration_value_) == FALSE

\* line 309: not iteration_value
IterationMissing(iteration_value_) == iteration_value_ = None

\* how one PATCH may end (lines 249-257):
\*   ok                status 200
\*   rejected_message  another status, the body a JSON object with 'message'
\*   rejected_plain    another status, the body a JSON object without 'message'
\*   not_json          another status, the body not JSON (an HTML or empty body)
\*   json_not_object   another status, the body JSON but no object (a list)
\*   connection_error, timeout   requests.patch raises a RequestException
PatchOutcomes == {"ok", "rejected_message", "rejected_plain", "not_json",
                  "json_not_object", "connection_error", "timeout"}

\* whether the JSONDecodeError that response.json() raises is a
\* RequestException depends on the installed requests library
RequestsVersions == {"json_error_is_request_exception", "json_error_is_value_error"}

\* patch_result with the RequestException handler of line 256 missing
patch_result_no_handler(o, version) ==
  CASE o = "ok" -> [report |-> "success", raised |-> None]
    [] o \in {"rejected_message", "rejected_plain"} ->
         [report |-> "failed", raised |-> None]
    [] o = "not_json" -> [report |-> None, raised |-> "JSONDecodeError"]
    [] o = "json_not_object" -> [report |-> None, raised |-> "AttributeError"]
    [] OTHER -> [report |-> None, raised |-> "RequestException"]

\* lines 248-257: what add_tag prints for one ticket, or the exception that
\* leaves the loop
patch_result(o, version) ==
  CASE o = "ok" -> [report |-> "success", raised |-> None]
    [] o \in {"rejected_message", "rejected_plain"} ->
         [report |-> "failed", raised |-> None]
    [] o = "not_json" ->
         IF version = "json_error_is_request_exception"
         THEN [report |-> "network_error", raised |-> None]
         ELSE [report |-> None, raised |-> "JSONDecodeError"]
    [] o = "json_not_object" ->
         [report |-> None, raised |-> "AttributeError"]   \* list.get
    [] OTHER -> [report |-> "network_error", raised |-> None]

Call(name, args) == [call |-> name, args |-> args]

InitPC ==
  /\ pc = "filter"
  /\ exit_code = -1 /\ exc = None /\ outcome = None /\ trace = <<>>
  /\ TOKEN = "token" /\ is_setup_complete = TRUE
  /\ stdin_lines = <<>> /\ line_idx = 0 /\ entered = <<>>
  /\ requests_version \in RequestsVersions
  /\ RemoteUntouched
  /\ local_ref \in RefSamples
  /\ local_sha = "a1"
  /\ remote_sha \in {ZeroSha, "b2"}
  /\ default_branch = "main"
  /\ FreshLocals

\* lines 280-286: the branch filter
BranchFilter ==
  /\ pc = "filter"
  /\ branch_name' = LastSegment(local_ref)
  /\ IF IsReviewBranch(branch_name')
     THEN pc' = "returned" /\ outcome' = "Skipped"
     ELSE pc' = "range" /\ outcome' = outcome
  /\ UNCHANGED <<exit_code, exc, mainVars, paramVars, remoteVars, requests_version,
                 commit_range, commit_messages, ticket_nums, iteration_value,
                 resp, today, patch_outcomes, reports, trace, stages>>

\* lines 288-294 and 317-320: the start of the commit range
RangeResolution ==
  /\ pc = "range"
  /\ stages' = Append(stages, "RangeResolution")
  /\ IF IsNewBranch(remote_sha)
     THEN \E r \in GitResults :
            /\ trace' = Append(trace, Call("git merge-base",
                                           <<local_sha, "origin/", default_branch>>))
            /\ IF r = "ok"
               THEN /\ commit_range' = [from |-> "base", to |-> local_sha]
                    /\ pc' = "log" /\ exc' = exc /\ outcome' = outcome
               ELSE /\ pc' = "raised" /\ exc' = r /\ outcome' = "Fatal"
                    /\ commit_range' = commit_range
     ELSE /\ commit_range' = [from |-> remote_sha, to |-> local_sha]
          /\ pc' = "log"
          /\ UNCHANGED <<exc, outcome, trace>>
  /\ UNCHANGED <<exit_code, mainVars, paramVars, remoteVars, requests_version, branch_name,
                 commit_messages, ticket_nums, iteration_value, resp, today,
                 patch_outcomes, reports>>

\* lines 296-302 and 317-320: reading the commit messages of the range
CommitRead ==
  /\ pc = "log"
  /\ stages' = Append(stages, "CommitRead")
  /\ trace' = Append(trace, Call("git log", <<commit_range.from, "..", commit_range.to>>))
  /\ \E r \in GitResults \cup {"UnicodeDecodeError"} :
       IF r = "ok"
       THEN \E git_log_output \in LogSamples :
              /\ commit_messages' = strip(git_log_output)
              /\ IF commit_messages' = <<>>
                 THEN pc' = "returned" /\ outcome' = "Done"
                 ELSE pc' = "extract" /\ outcome' = outcome
              /\ exc' = exc
       ELSE /\ pc' = "raised" /\ exc' = r
            /\ outcome' = IF r = "UnicodeDecodeError" THEN "Crashed" ELSE "Fatal"
            /\ commit_messages' = commit_messages
  /\ UNCHANGED <<exit_code, mainVars, paramVars, remoteVars, requests_version, branch_name,
                 commit_range, ticket_nums, iteration_value, resp, today,
                 patch_outcomes, reports>>

\* lines 304-306: the identifier extractor
Extraction ==
  /\ pc = "extract"
  /\ stages' = Append(stages, "Extraction")
  /\ ticket_nums' \in parse_commit_message(commit_messages)
  /\ IF ticket_nums' = <<>>
     THEN pc' = "returned" /\ outcome' = "Done"
     ELSE pc' = "resolve" /\ outcome' = outcome
  /\ UNCHANGED <<exit_code, exc, mainVars, paramVars, remoteVars, requests_version,
                 branch_name, commit_range, commit_messages, iteration_value,
                 resp, today, patch_outcomes, reports, trace>>

\* lines 308-313 with get_current_iteration (198-231): the iteration resolver
Resolution ==
  /\ pc = "resolve"
  /\ stages' = Append(stages, "Resolution")
  /\ trace' = Append(trace, Call("GET", <<"Iterations">>))
  /\ \E r \in GetResponses, d \in DaySamples :
       LET got == get_current_iteration(r, d)
       IN /\ resp' = r
          /\ today' = IF r.kind \in {"tree", "no_children", "json_null"} THEN d ELSE today
          /\ IF got.raised # None
             THEN /\ pc' = "raised" /\ exc' = got.raised /\ outcome' = "Crashed"
                  /\ iteration_value' = iteration_value
             ELSE /\ iteration_value' = got.value
                  /\ exc' = exc
                  /\ IF IterationMissing(got.value)
                     THEN pc' = "returned" /\ outcome' = "Aborted"
                     ELSE pc' = "update" /\ outcome' = outcome
  /\ UNCHANGED <<exit_code, mainVars, paramVars, remoteVars, requests_version, branch_name,
                 commit_range, commit_messages, ticket_nums, patch_outcomes,
                 reports>>

\* lines 315 and 242-257: one turn of add_tag's loop, for the next ticket
AddTagStep ==
  /\ pc = "update"
  /\ Len(patch_outcomes) < Len(tickets_to_update(ticket_nums, remote))
  /\ stages' = IF patch_outcomes = <<>> THEN Append(stages, "Update") ELSE stages
  /\ LET ticket_num == tickets_to_update(ticket_nums, remote)[Len(patch_outcomes) + 1]
     IN /\ trace' = Append(trace, Call("PATCH", ticket_num))
        /\ \E o \in PatchOutcomes :
             LET res == patch_result(o, requests_version)
             IN /\ patch_outcomes' = Append(patch_outcomes, o)
                /\ remote' = Served(remote, ticket_num, o,
                                    patch_body(TAG_VALUE, iteration_value))
                /\ IF res.raised # None
                   THEN /\ pc' = "raised" /\ exc' = res.raised /\ outcome' = "Crashed"
                        /\ reports' = reports
                   ELSE /\ reports' = Append(reports, res.report)
                        /\ exc' = exc
                        /\ IF Len(patch_outcomes') = Len(tickets_to_update(ticket_nums, remote))
                           THEN pc' = "returned" /\ outcome' = "Done"
                           ELSE pc' = "update" /\ outcome' = outcome
  /\ UNCHANGED <<exit_code, mainVars, paramVars, run, first_run, requests_version,
                 branch_name, commit_range, commit_messages, ticket_nums,
                 iteration_value, resp, today>>

\* lines 366 and 376: no handler stands between process_commits and the top
\* of the script, so an exception that leaves it ends the process
Unwind ==
  /\ pc = "raised"
  /\ pc' = "exited"
  /\ exit_code' = 1
  /\ UNCHANGED <<exc, outcome, mainVars, paramVars, remoteVars, requests_version, branch_name,
                 commit_range, commit_messages, ticket_nums, iteration_value,
                 resp, today, patch_outcomes, reports, trace, stages>>

NextPC ==
  \/ BranchFilter
  \/ RangeResolution
  \/ CommitRead
  \/ Extraction
  \/ Resolution
  \/ AddTagStep
  \/ Unwind

SpecPC == InitPC /\ [][NextPC]_vars

\* ------------------------------------------- SpecIdem: add_tag run twice
\* the ticket lists add_tag is given: one ticket, two tickets in either order
TicketListSamples == {<< <<"1">> >>, << <<"1">>, <<"2">> >>, << <<"2">>, <<"1">> >>}

\* what the service may hold for a work item before the first run: nothing,
\* another tag and an older iteration, or the tag and the iteration already
ItemSamples ==
  { FreshItem,
    [tags |-> <<"Other">>, iteration |-> "S0"],
    [tags |-> <<"Other", TAG_VALUE>>, iteration |-> "S1"] }

\* line 234: add_tag(ticket_nums, tag_value, iteration_value) entered with
\* the tag of line 60 and the iteration S1
InitIdem ==
  /\ pc = "update"
  /\ exit_code = -1 /\ exc = None /\ outcome = None /\ trace = <<>>
  /\ MainIdle /\ NoCall
  /\ requests_version \in RequestsVersions
  /\ branch_name = <<>> /\ commit_range = NoRange /\ commit_messages = <<>>
  /\ ticket_nums \in TicketListSamples
  /\ iteration_value = "S1"
  /\ resp = NoResponse /\ today = 0
  /\ patch_outcomes = <<>> /\ reports = <<>> /\ stages = <<>>
  /\ \E a \in ItemSamples, b \in ItemSamples :
       remote = [t \in RemoteTickets |->
                   IF t = <<"1">> THEN a ELSE IF t = <<"2">> THEN b ELSE FreshItem]
  /\ run = 1
  /\ first_run = [outcomes |-> <<>>, remote |-> [t \in RemoteTickets |-> FreshItem]]

\* line 234 again: add_tag returned and is called a second time with the
\* same tickets, tag and iteration; the loop of line 242 starts over
SecondRun ==
  /\ pc = "returned"
  /\ run = 1
  /\ first_run' = [outcomes |-> patch_outcomes, remote |-> remote]
  /\ run' = 2
  /\ patch_outcomes' = <<>>
  /\ reports' = <<>>
  /\ pc' = "update"
  /\ outcome' = None
  /\ UNCHANGED <<exit_code, exc, mainVars, paramVars, remote, requests_version,
                 branch_name, commit_range, commit_messages, ticket_nums,
                 iteration_value, resp, today, trace, stages>>

NextIdem ==
  \/ AddTagStep
  \/ SecondRun

SpecIdem == InitIdem /\ [][NextIdem]_vars

\* ------------------------------------------------------ Spec: the program
\* a truth test that takes every value for true
FalsyNever(x) == FALSE

\* the truth value Python gives a string or None
Falsy(x) == x \in {None, ""}

\* what the environment variable and the shell config files may hold
TokenSources == {None, "", "TODO", "secret"}

\* line 94: os.getenv('ADO_TOKEN') or get_token_from_shell_config() or 'TODO'
TokenOf(env, config) ==
  IF ~Falsy(env) THEN env ELSE IF ~Falsy(config) THEN config ELSE "TODO"

\* how `git remote show origin` may end (lines 116-131): it prints a
\* 'HEAD branch:' line naming main or master, prints none, exits non-zero,
\* or git is not installed
RemoteShowResults == {"main", "master", "no_head_branch",
                      "CalledProcessError", "FileNotFoundError"}

\* lines 114-131: the value get_default_branch returns
get_default_branch(r) ==
  IF r \in {"no_head_branch", "CalledProcessError", "FileNotFoundError"}
  THEN None ELSE r

\* line 336 with the token check always passing
SetupCompleteAlways(token) == TRUE

\* lines 335-340: is_setup_complete
SetupComplete(token) == ~(token = "TODO" \/ Falsy(token))

\* the lines git may write to the hook's stdin, each as the tokens split()
\* gives: a blank line, a push to a new branch, a push to an existing
\* branch, a push from a review branch, a line of three tokens
LineSamples ==
  { <<>>,
    <<RefsHeads \o <<"x">>, "a1", RefsHeads \o <<"x">>, ZeroSha>>,
    <<RefsHeads \o <<"x">>, "a1", RefsHeads \o <<"x">>, "b2">>,
    <<RefsHeads \o <<"C","R","/","x">>, "a1", RefsHeads \o <<"x">>, "b2">>,
    <<RefsHeads \o <<"x">>, "a1", RefsHeads \o <<"x">>>> }

RECURSIVE LinesOf(_)
LinesOf(n) ==
  IF n = 0 THEN {<<>>}
  ELSE LinesOf(n - 1) \cup {ls \o <<l>> : ls \in LinesOf(n - 1), l \in LineSamples}

\* line 275: the parameters process_commits declares
process_commits_params == <<"local_ref", "local_sha", "remote_sha", "default_branch">>

\* line 366: the arguments main passes
call_args(tokens, default_branch_) ==
  <<tokens[1], tokens[2], tokens[3], tokens[4], default_branch_>>

\* a call with positional arguments binds only when there is one per parameter
CallBinds(args, params) == Len(args) = Len(params)

Init ==
  /\ pc = "guard"
  /\ exit_code = -1 /\ exc = None /\ outcome = None /\ trace = <<>>
  /\ \E env \in TokenSources, config \in TokenSources : TOKEN = TokenOf(env, config)
  /\ default_branch = None
  /\ is_setup_complete = FALSE
  /\ stdin_lines = <<>> /\ line_idx = 0 /\ entered = <<>>
  /\ requests_version \in RequestsVersions
  /\ RemoteUntouched
  /\ NoCall
  /\ FreshLocals

pipelineVars == <<remoteVars, requests_version, branch_name, commit_range, commit_messages,
                  ticket_nums, iteration_value, resp, today, patch_outcomes,
                  reports, stages>>

\* lines 371-376: the script runs main only from the root of a repository
Guard ==
  /\ pc = "guard"
  /\ \E is_git_root \in BOOLEAN :
       IF is_git_root
       THEN pc' = "main" /\ exit_code' = exit_code
       ELSE pc' = "exited" /\ exit_code' = 1
  /\ UNCHANGED <<exc, outcome, mainVars, paramVars, pipelineVars, trace>>

\* lines 329-331 with get_default_branch (109-131)
GetDefaultBranch ==
  /\ pc = "main"
  /\ trace' = Append(trace, Call("git remote show", <<"origin">>))
  /\ \E r \in RemoteShowResults :
       /\ default_branch' = get_default_branch(r)
       /\ IF Falsy(default_branch')
          THEN pc' = "exited" /\ exit_code' = 1
          ELSE pc' = "config" /\ exit_code' = exit_code
  /\ UNCHANGED <<exc, outcome, TOKEN, is_setup_complete, stdin_lines, line_idx,
                 entered, paramVars, pipelineVars>>

\* lines 333-340: the configuration check
ConfigCheck ==
  /\ pc = "config"
  /\ is_setup_complete' = SetupComplete(TOKEN)
  /\ pc' = "read"
  /\ UNCHANGED <<exit_code, exc, outcome, TOKEN, default_branch, stdin_lines,
                 line_idx, entered, paramVars, pipelineVars, trace>>

\* lines 349-358: reading stdin, and the two early returns
ReadStdin ==
  /\ pc = "read"
  /\ \E ls \in LinesOf(MaxLines) :
       /\ stdin_lines' = ls
       /\ IF ls = <<>> \/ ~is_setup_complete
          THEN pc' = "exited" /\ exit_code' = 0 /\ line_idx' = line_idx
          ELSE pc' = "loop" /\ exit_code' = exit_code /\ line_idx' = 1
  /\ UNCHANGED <<exc, outcome, TOKEN, default_branch, is_setup_complete, entered,
                 paramVars, pipelineVars, trace>>

\* lines 360-366: one turn of the loop over the lines
LoopStep ==
  /\ pc = "loop"
  /\ line_idx <= Len(stdin_lines)
  /\ LET line == stdin_lines[line_idx]
     IN IF line = <<>>
        THEN \* lines 362-363: continue
             /\ line_idx' = line_idx + 1
             /\ UNCHANGED <<pc, exc, entered, paramVars>>
        ELSE IF Len(line) # 4
        THEN \* line 365: the unpacking raises ValueError
             /\ pc' = "raised" /\ exc' = "ValueError"
             /\ UNCHANGED <<line_idx, entered, paramVars>>
        ELSE IF ~CallBinds(call_args(line, default_branch), process_commits_params)
        THEN \* line 366: the call raises TypeError
             /\ pc' = "raised" /\ exc' = "TypeError"
             /\ UNCHANGED <<line_idx, entered, paramVars>>
        ELSE \* line 366: the arguments are bound in order
             /\ pc' = "filter" /\ exc' = exc
             /\ entered' = Append(entered, line_idx)
             /\ local_ref' = call_args(line, default_branch)[1]
             /\ local_sha' = call_args(line, default_branch)[2]
             /\ remote_sha' = call_args(line, default_branch)[3]
             /\ line_idx' = line_idx
  /\ UNCHANGED <<exit_code, outcome, TOKEN, default_branch, is_setup_complete,
                 stdin_lines, pipelineVars, trace>>

\* line 368: the loop is over, main returns
Finish ==
  /\ pc = "loop"
  /\ line_idx > Len(stdin_lines)
  /\ pc' = "exited"
  /\ exit_code' = 0
  /\ UNCHANGED <<exc, outcome, mainVars, paramVars, pipelineVars, trace>>

Next ==
  \/ Guard
  \/ GetDefaultBranch
  \/ ConfigCheck
  \/ ReadStdin
  \/ LoopStep
  \/ Finish
  \/ Unwind

Spec == Init /\ [][Next]_vars

\* ================================================================ claims
\* the positions of text where AB# stands in any letter case, digits next
MarkedPositions(text) ==
  {i \in 1..(Len(text) - 3) :
     /\ text[i] \in {"A", "a"}
     /\ text[i + 1] \in {"B", "b"}
     /\ text[i + 2] = "#"
     /\ text[i + 3] \in Digits}

\* the longest run of digits of text that starts at position i
DigitStringAt(text, i) ==
  LET ends == {e \in i..Len(text) : \A j \in i..e : text[j] \in Digits}
  IN SubSeq(text, i, CHOOSE e \in ends : \A f \in ends : f <= e)

MarkedDigitStrings(text) ==
  {DigitStringAt(text, i + 3) : i \in MarkedPositions(text)}

\* C7: for every commit text parse_commit_message returns a collection
\* without duplicates that holds exactly the digit strings following an
\* occurrence of AB# (the prefix in any letter case); no marker, no element.
C7_ExtractorExact ==
  pc = "parsed" =>
    /\ NoDuplicates(ticket_nums)
    /\ Range(ticket_nums) = MarkedDigitStrings(commit_messages)
    /\ (MarkedPositions(commit_messages) = {} => ticket_nums = <<>>)

\* C7 witness: the text AB#1ab#1 was parsed to the single element 1
C7_Witness ==
  /\ pc = "parsed"
  /\ commit_messages = <<"A","B","#","1","a","b","#","1">>
  /\ ticket_nums = << <<"1">> >>

\* the nodes of a forest in depth-first pre-order
RECURSIVE PreOrder(_)
PreOrder(forest) ==
  IF forest = <<>> THEN <<>>
  ELSE <<Head(forest)>> \o PreOrder(Head(forest).children) \o PreOrder(Tail(forest))

\* the node's path holds the year of date d and its range holds d, ends included
Qualifies(node, d) ==
  /\ Contains(node.path, str(YearOf(d)))
  /\ node.attributes.has
  /\ node.attributes.startDate.kind = "iso"
  /\ node.attributes.finishDate.kind = "iso"
  /\ UtcDate(node.attributes.startDate) <= d
  /\ d <= UtcDate(node.attributes.finishDate)

QualifyingIndexes(forest, d) ==
  {i \in 1..Len(PreOrder(forest)) : Qualifies(PreOrder(forest)[i], d)}

\* C6: find_current_iteration_recursive returns the name of the first node
\* in pre-order that qualifies, and not-found exactly when no node does.
C6_FirstPreOrderMatch ==
  pc = "found" =>
    LET q == PreOrder(resp.children)
        idx == QualifyingIndexes(resp.children, today)
    IN IF idx = {} THEN iteration_value = None
       ELSE iteration_value = q[CHOOSE i \in idx : \A j \in idx : i <= j].name

\* C6 witness: a root and its child both qualify and the root's name came back
C6_Witness ==
  /\ pc = "found"
  /\ Len(resp.children) >= 1
  /\ Len(resp.children[1].children) >= 1
  /\ Qualifies(resp.children[1], today)
  /\ Qualifies(resp.children[1].children[1], today)
  /\ iteration_value = resp.children[1].name

\* ---------------------------------------------------------------- helpers
\* the calls of the trace with the given name, in order
CallsOf(name) == SelectSeq(trace, LAMBDA c : c.call = name)

\* every line of stdin is blank or holds the four tokens git writes
WellFormedInput == \A i \in 1..Len(stdin_lines) : Len(stdin_lines[i]) \in {0, 4}

\* the indexes of the non-blank lines of stdin, in input order
NonBlankLines ==
  SelectSeq([i \in 1..Len(stdin_lines) |-> i], LAMBDA i : stdin_lines[i] # <<>>)

\* the branch a local ref names: the ref without refs/heads/
PushedBranch(ref) ==
  IF startswith(ref, RefsHeads) THEN SubSeq(ref, Len(RefsHeads) + 1, Len(ref)) ELSE ref

\* C1 (as claimed): a run in which the default branch is determined, the
\* credential is configured and no git command fails ends with exit code 0.
C1_ExitZeroWhenGitSucceeds ==
  (/\ pc = "exited"
   /\ WellFormedInput
   /\ default_branch # None
   /\ TOKEN # "TODO"
   /\ exc \notin {"CalledProcessError", "FileNotFoundError"})
    => exit_code = 0

\* C2 (as claimed): a push whose branch name begins with CR/ in any letter
\* case reaches Skipped: process_commits returns with no git command run,
\* no stage entered, no GET and no PATCH.
C2_ReviewBranchSkipped ==
  (pc # "filter" /\ IsReviewBranch(PushedBranch(local_ref)))
    => /\ pc = "returned"
       /\ outcome = "Skipped"
       /\ trace = <<>>
       /\ stages = <<>>

\* C3: past the branch filter merge-base is run exactly when remote_sha is
\* the 40-zero sentinel (and then once); a failing merge-base or log command
\* leaves process_commits as an exception, before any Extraction, Resolution
\* or Update, and the process exits non-zero.
C3_MergeBaseAndFatal ==
  /\ (pc \notin {"filter", "range"} /\ outcome # "Skipped")
       => /\ (CallsOf("git merge-base") # <<>>) <=> (remote_sha = ZeroSha)
          /\ Len(CallsOf("git merge-base")) <= 1
  /\ (pc \in {"filter", "range"}) => CallsOf("git merge-base") = <<>>
  /\ (exc \in {"CalledProcessError", "FileNotFoundError"})
       => /\ pc \in {"raised", "exited"}
          /\ outcome = "Fatal"
          /\ ticket_nums = <<>>
          /\ Range(stages) \subseteq {"RangeResolution", "CommitRead"}
          /\ CallsOf("GET") = <<>> /\ CallsOf("PATCH") = <<>>
          /\ trace[Len(trace)].call \in {"git merge-base", "git log"}
          /\ (pc = "exited" => exit_code # 0)

\* C3 witness: a new-branch push whose merge-base failed ended the process
C3_Witness ==
  /\ pc = "exited"
  /\ remote_sha = ZeroSha
  /\ exc = "CalledProcessError"
  /\ trace[Len(trace)].call = "git merge-base"
  /\ exit_code = 1

\* the PATCH outcomes C4 speaks of: success, rejection, network failure, timeout
C4Outcomes == {"ok", "rejected_message", "rejected_plain", "connection_error", "timeout"}

\* C4: while every answer is a success, a rejection, a network failure or a
\* timeout, add_tag sends one PATCH per ticket in list order, reports each
\* ticket once, a failure exactly for the tickets that failed, lets no
\* exception out and returns only after the last ticket.
C4_OnePatchPerTicket ==
  (\A i \in 1..Len(patch_outcomes) : patch_outcomes[i] \in C4Outcomes)
    => /\ Len(CallsOf("PATCH")) = Len(patch_outcomes)
       /\ Len(patch_outcomes) <= Len(ticket_nums)
       /\ \A i \in 1..Len(patch_outcomes) : CallsOf("PATCH")[i].args = ticket_nums[i]
       /\ Len(reports) = Len(patch_outcomes)
       /\ \A i \in 1..Len(reports) : (reports[i] = "success") <=> (patch_outcomes[i] = "ok")
       /\ Cardinality({i \in 1..Len(reports) : reports[i] # "success"})
            = Cardinality({i \in 1..Len(patch_outcomes) : patch_outcomes[i] # "ok"})
       /\ ("Update" \in Range(stages))
            => /\ exc = None
               /\ pc \in {"update", "returned"}
               /\ (pc = "returned" => Len(patch_outcomes) = Len(ticket_nums))

\* C4 witness: three tickets, the second rejected, all three attempted and
\* one failure reported
C4_Witness ==
  /\ pc = "returned"
  /\ Len(ticket_nums) = 3
  /\ patch_outcomes = <<"ok", "rejected_message", "ok">>
  /\ reports = <<"success", "failed", "success">>
  /\ Len(CallsOf("PATCH")) = 3

\* C5 (as claimed): a malformed answer to one PATCH is a failure of that
\* ticket only: it is reported, no exception leaves add_tag and the
\* remaining tickets are attempted.
C5_MalformedIsTicketFailure ==
  (\E i \in 1..Len(patch_outcomes) : patch_outcomes[i] \in {"not_json", "json_not_object"})
    => /\ exc = None
       /\ Len(reports) = Len(patch_outcomes)
       /\ pc \in {"update", "returned"}
       /\ (pc = "returned" => Len(patch_outcomes) = Len(ticket_nums))

\* the credential is absent or the placeholder: line 94 turns both into TODO
CredentialMissing == TOKEN = "TODO"

\* no push line was processed: the loop never started and git was asked
\* nothing but the default branch
NoLineProcessed ==
  /\ entered = <<>>
  /\ line_idx = 0
  /\ stages = <<>>
  /\ \A i \in 1..Len(trace) : trace[i].call = "git remote show"

\* C8 (as claimed): without a credential every run of main is a soft stop
\* that processes no line and exits 0.
C8_MissingCredentialExitsZero ==
  (pc = "exited" /\ CredentialMissing /\ trace # <<>>)
    => (NoLineProcessed /\ exit_code = 0)

\* C8 (amended): without a credential no push line is processed; the exit
\* code is 0 when the default branch was determined and 1 when it was not.
C8_MissingCredentialSoftStop ==
  (pc = "exited" /\ CredentialMissing)
    => /\ NoLineProcessed
       /\ exc = None
       /\ (default_branch # None => exit_code = 0)
       /\ (default_branch = None => exit_code = 1)

\* C8 witness: a run with a push line on stdin and no credential ended with 0
C8_Witness ==
  /\ pc = "exited"
  /\ CredentialMissing
  /\ Len(stdin_lines) >= 1
  /\ Len(stdin_lines[1]) = 4
  /\ exit_code = 0

\* C9 (as claimed): with the integration enabled, when main ends every
\* non-blank line has had its run of process_commits, in input order.
C9_OnePipelinePerLine ==
  (pc = "exited" /\ is_setup_complete /\ WellFormedInput)
    => entered = NonBlankLines

\* the resolver yielded no iteration for one of the reasons C10 lists
ResolverYieldsNothing ==
  /\ "Resolution" \in Range(stages)
  /\ \/ resp.kind \in {"connection_error", "timeout", "http_error", "bad_json",
                       "no_children"}
     \/ resp.kind = "tree" /\ QualifyingIndexes(resp.children, today) = {}

\* C10: when the resolver yields no iteration the pipeline is Aborted:
\* process_commits has returned without an exception, add_tag was not
\* called and no PATCH was sent.
C10_NoIterationAborts ==
  ResolverYieldsNothing
    => /\ pc = "returned"
       /\ outcome = "Aborted"
       /\ exc = None
       /\ exit_code = -1
       /\ "Update" \notin Range(stages)
       /\ patch_outcomes = <<>>
       /\ CallsOf("PATCH") = <<>>

\* C10 witness: the GET timed out and the pipeline was Aborted
C10_Witness ==
  /\ pc = "returned"
  /\ outcome = "Aborted"
  /\ resp.kind = "timeout"
  /\ ticket_nums # <<>>

FirstRunUpdated == {i \in 1..Len(first_run.outcomes) : first_run.outcomes[i] = "ok"}

MentionsTwice(text) ==
  \E i \in MarkedPositions(text), j \in MarkedPositions(text) :
    i < j /\ DigitStringAt(text, i + 3) = DigitStringAt(text, j + 3)

\* C12: whenever process_commits has called add_tag, for every PATCH it
\* sends and in every state of the loop, the ticket collection it passed is
\* non-empty and holds no identifier twice.
C12_TicketsNonEmptyAndDistinct ==
  (pc = "update" \/ CallsOf("PATCH") # <<>>) =>
    /\ ticket_nums # <<>>
    /\ NoDuplicates(ticket_nums)
    /\ Range(ticket_nums) = MarkedDigitStrings(commit_messages)

\* add_tag is being called for commits that name the same identifier in two
\* commit messages, the prefix in different letter cases
C12_Witness ==
  /\ pc = "update"
  /\ commit_messages = <<"A","B","#","1","\n","\n","a","b","#","1">>
  /\ MentionsTwice(commit_messages)
  /\ ticket_nums = << <<"1">> >>

\* ---------------------------------------------------------------- C13
\* the start of the range C13 names for a push line: the merge-base when the
\* fourth token is the sentinel, the fourth token otherwise
RangeStartOf(tokens) == IF tokens[4] = ZeroSha THEN "base" ELSE tokens[4]

\* C13 (as claimed): when the run is over, the integration enabled and the
\* first line of stdin a push line of a branch the filter lets pass, then
\* unless a git command failed the commits of from..local_commit of that
\* line were read, from as RangeStartOf says.
C13_RangeOfThePushLine ==
  (/\ pc = "exited"
   /\ is_setup_complete
   /\ stdin_lines # <<>>
   /\ Len(stdin_lines[1]) = 4
   /\ ~IsReviewBranch(PushedBranch(stdin_lines[1][1])))
    => \/ exc \in {"CalledProcessError", "FileNotFoundError"}
       \/ \E i \in 1..Len(trace) :
            trace[i] = Call("git log", <<RangeStartOf(stdin_lines[1]), "..",
                                         stdin_lines[1][2]>>)

\* ---------------------------------------------------------------- C14
\* q is an initial part of r
IsPrefix(q, r) == Len(q) <= Len(r) /\ q = SubSeq(r, 1, Len(q))

\* the position in trace of the first call of that name, 0 when there is none
FirstCall(name) ==
  IF CallsOf(name) = <<>> THEN 0
  ELSE CHOOSE i \in 1..Len(trace) :
         /\ trace[i].call = name
         /\ \A j \in 1..(i - 1) : trace[j].call # name

\* the names of the iterations the service answered with
RECURSIVE NamesIn(_)
NamesIn(nodes) ==
  IF nodes = <<>> THEN {}
  ELSE {Head(nodes).name} \cup NamesIn(Head(nodes).children) \cup NamesIn(Tail(nodes))

\* C14: the stages of one run of process_commits are entered in the order
\* CommitRead, Extraction, Resolution, Update, none twice; an empty commit
\* text ends the run as Done with no Extraction, GET or PATCH; an empty
\* identifier set ends it as Done with no GET or PATCH; and a PATCH is sent
\* only after the GET has returned the name of an iteration.
C14_StagesInOrderAndShortCircuit ==
  /\ IsPrefix(stages, <<"RangeResolution", "CommitRead", "Extraction", "Resolution", "Update">>)
  /\ ("CommitRead" \in Range(stages) /\ pc # "log" /\ exc = None /\ commit_messages = <<>>)
       => /\ pc = "returned" /\ outcome = "Done" /\ exit_code = -1
          /\ "Extraction" \notin Range(stages)
          /\ CallsOf("GET") = <<>> /\ CallsOf("PATCH") = <<>>
  /\ ("Extraction" \in Range(stages) /\ ticket_nums = <<>>)
       => /\ pc = "returned" /\ outcome = "Done" /\ exit_code = -1 /\ exc = None
          /\ "Resolution" \notin Range(stages)
          /\ CallsOf("GET") = <<>> /\ CallsOf("PATCH") = <<>>
  /\ (CallsOf("PATCH") # <<>>)
       => /\ Len(CallsOf("GET")) = 1
          /\ FirstCall("GET") < FirstCall("PATCH")
          /\ resp.kind = "tree"
          /\ iteration_value \in NamesIn(resp.children)

\* C14 witness: a run went through all four stages and sent its PATCH after
\* the GET had named the iteration
C14_Witness ==
  /\ pc = "returned" /\ outcome = "Done"
  /\ stages = <<"RangeResolution", "CommitRead", "Extraction", "Resolution", "Update">>
  /\ iteration_value = "S1"
  /\ FirstCall("GET") < FirstCall("PATCH")
  /\ Len(CallsOf("PATCH")) = Len(ticket_nums)

\* ---------------------------------------------------------------- C15
\* line 182 is reached for the node and a date string of it fails to parse
Unparseable(node, d) ==
  /\ Contains(node.path, str(YearOf(d)))
  /\ node.attributes.has
  /\ Truthy(node.attributes.startDate) /\ Truthy(node.attributes.finishDate)
  /\ node.attributes.startDate.kind = "bad" \/ node.attributes.finishDate.kind = "bad"

\* C15: a search over a forest with a node whose start or finish date fails
\* to parse lets no exception out and never returns that node; when a
\* qualifying node follows it in pre-order, among its descendants or its
\* later siblings, the first qualifying node is what the search returns.
C15_UnparseableNodeSkipped ==
  pc # "find" =>
    LET q == PreOrder(resp.children)
        idx == QualifyingIndexes(resp.children, today)
    IN \A i \in 1..Len(q) :
         Unparseable(q[i], today)
           => /\ pc = "found" /\ exc = None
              /\ iteration_value # q[i].name
              /\ \A j \in idx :
                   j > i => /\ iteration_value # None
                            /\ iteration_value =
                                 q[CHOOSE k \in idx : \A l \in idx : k <= l].name

\* C15 witness: the first root has an unparseable date and a child that does
\* not qualify; the search went on to the second root and returned it
C15_Witness ==
  /\ pc = "found"
  /\ Len(resp.children) = 2
  /\ Unparseable(resp.children[1], today)
  /\ Len(resp.children[1].children) = 1
  /\ ~Qualifies(resp.children[1].children[1], today)
  /\ Qualifies(resp.children[2], today)
  /\ iteration_value = resp.children[2].name

\* ---------------------------------------------------------------- C16
\* the node's dates parse and its range holds d, whatever its path
RangeHolds(node, d) ==
  /\ node.attributes.has
  /\ node.attributes.startDate.kind = "iso"
  /\ node.attributes.finishDate.kind = "iso"
  /\ UtcDate(node.attributes.startDate) <= d
  /\ d <= UtcDate(node.attributes.finishDate)

\* the node's path does not hold the year of d
OffYear(node, d) == ~Contains(node.path, str(YearOf(d)))

\* C16: the search never returns a node whose path lacks the year of the
\* reference date, whether or not its range holds the date; and when a
\* descendant of such a node qualifies the search still returns a node, the
\* first that qualifies in pre-order.
C16_OffYearNodeNeverReturned ==
  pc # "find" =>
    LET q == PreOrder(resp.children)
        idx == QualifyingIndexes(resp.children, today)
    IN /\ pc = "found"
       /\ \A i \in 1..Len(q) :
            OffYear(q[i], today)
              => /\ iteration_value # q[i].name
                 /\ \A j \in idx :
                      (i < j /\ j <= i + Len(PreOrder(q[i].children)))
                        => iteration_value =
                             q[CHOOSE k \in idx : \A l \in idx : k <= l].name

\* C16 witness: on 2024-01-01 the root, filed under 2023, runs from
\* 2023-12-31 into 2024 and so holds the date; its child under 2024
\* qualifies and is what the search returned
C16_Witness ==
  /\ pc = "found"
  /\ today = 365
  /\ Len(resp.children) >= 1
  /\ OffYear(resp.children[1], today)
  /\ RangeHolds(resp.children[1], today)
  /\ UtcDate(resp.children[1].attributes.startDate) = 364
  /\ Len(resp.children[1].children) >= 1
  /\ Qualifies(resp.children[1].children[1], today)
  /\ iteration_value = resp.children[1].children[1].name

\* ---------------------------------------------------------------- C17
\* main has got past the resolution of the default branch
PastDefaultBranch ==
  \/ pc \in {"config", "read", "loop", "filter", "raised"}
  \/ is_setup_complete
  \/ stdin_lines # <<>>
  \/ line_idx > 0

\* C17: git is asked for the default branch at most once, and that before
\* anything else: no credential check, no read of stdin and no other call
\* comes before it, and whatever comes after finds the branch resolved; when
\* it cannot be determined the run is over with a non-zero exit code, no
\* line read or processed and no request sent.
C17_DefaultBranchFirstAndOnce ==
  /\ Len(CallsOf("git remote show")) <= 1
  /\ pc \in {"guard", "main"}
       => /\ trace = <<>>
          /\ ~is_setup_complete
          /\ stdin_lines = <<>>
  /\ PastDefaultBranch
       => /\ Len(CallsOf("git remote show")) = 1
          /\ trace[1].call = "git remote show"
          /\ default_branch \in {"main", "master"}
  /\ pc = "config" => (~is_setup_complete /\ stdin_lines = <<>>)
  /\ (trace # <<>> /\ default_branch = None)
       => /\ pc = "exited"
          /\ exit_code = 1
          /\ ~is_setup_complete
          /\ stdin_lines = <<>>
          /\ NoLineProcessed
          /\ CallsOf("GET") = <<>> /\ CallsOf("PATCH") = <<>>
          /\ Len(trace) = 1

\* C17 witness: the credential is configured, the default branch could not
\* be determined and the run ended with exit code 1 after that one command
C17_Witness ==
  /\ pc = "exited"
  /\ TOKEN = "secret"
  /\ default_branch = None
  /\ trace = <<Call("git remote show", <<"origin">>)>>
  /\ exit_code = 1
  /\ stdin_lines = <<>>

\* ---------------------------------------------------------------- C18
\* the non-blank lines of stdin up to line k, in input order
NonBlankLinesUpTo(k) == SelectSeq(NonBlankLines, LAMBDA i : i <= k)

\* C18 (as claimed): when a run with the integration enabled is over, it
\* either went through every non-blank line, or ended at the first line on
\* which a git command failed, the lines before that one processed and none
\* after it.
C18_RunEndsAtFirstFatalLine ==
  (pc = "exited" /\ is_setup_complete /\ WellFormedInput /\ stdin_lines # <<>>)
    => \/ /\ exit_code = 0
          /\ exc = None
          /\ entered = NonBlankLines
       \/ /\ exit_code # 0
          /\ exc \in {"CalledProcessError", "FileNotFoundError"}
          /\ outcome = "Fatal"
          /\ entered = NonBlankLinesUpTo(line_idx)
          /\ entered # <<>>
          /\ entered[Len(entered)] = line_idx

\* ---------------------------------------------------------------- C19
\* how a run of process_commits that is over ended, in the words of C19:
\* an exception out of range resolution or commit read is Fatal
TerminalOutcome ==
  IF exc # None /\ "Extraction" \notin Range(stages) THEN "Fatal" ELSE outcome

\* C19 (as claimed): a run of process_commits that is over ended in one of
\* Skipped, Done, Aborted, Fatal; Fatal is the only one that leaves an
\* exception; no stage was entered twice and no request was sent twice.
C19_OneTerminalOutcome ==
  /\ NoDuplicates(stages)
  /\ NoDuplicates(trace)
  /\ pc \in {"returned", "raised", "exited"}
       => /\ TerminalOutcome \in {"Skipped", "Done", "Aborted", "Fatal"}
          /\ (exc # None) <=> (TerminalOutcome = "Fatal")

====
